---- MODULE Spec2Model ----
(***************************************************************************)
(* A model of xrdriveripc.py: the XRDriverIPC object that talks to the XR  *)
(* driver through three files (config.ini, the control-flags file and the  *)
(* driver-state file).                                                     *)
(*                                                                         *)
(* Text is a sequence of characters.  Digits, ".", "=", ",", " " and the   *)
(* newline are single characters; an identifier that never contains one of *)
(* those (a key name, "true", "mouse", ...) is carried as one element.      *)
(* Python values are tagged records, [t |-> type, v |-> value], because    *)
(* write_config dispatches on isinstance.  A float is carried in tenths    *)
(* (10 is 1.0), which is exact for the values the model draws.             *)
(***************************************************************************)
EXTENDS Integers, Sequences, FiniteSets, TLC

VARIABLES
    supported_output_modes, \* self.supported_output_modes, set by __init__
    configFile,             \* content of self.config_file_path, or NoFile
    configPerm,             \* permission bits of the config file
    tempFile,               \* content of "temp.txt", or NoFile
    cfgResult,              \* outcome of the last retrieve_config/write_config
    controlFile,            \* content of CONTROL_FLAGS_FILE_PATH, or NoFile
    flagsEmitted,           \* the output string of the last write_control_flags
    stateFile,              \* parsed content of DRIVER_STATE_FILE_PATH, or NoFile
    clock,                  \* what time.time() returns next
    stateResult,            \* outcome of the last retrieve_driver_state
    viewCall,               \* argument and outcome of the last build_state_ui_view
    modeCall                \* inputs and result of the last headset_mode_to_config

vars == <<supported_output_modes, configFile, configPerm, tempFile, cfgResult,
          controlFile, flagsEmitted, stateFile, clock, stateResult, viewCall, modeCall>>

configVars == <<configFile, configPerm, tempFile, cfgResult>>
flagVars   == <<controlFile, flagsEmitted>>
stateVars  == <<stateFile, clock, stateResult, viewCall>>

NoFile == "no file"
None   == "None"      \* Python's None where the other values are plain strings
NL     == "\n"

----------------------------------------------------------------------------
(* Python's str methods on text                                            *)

Whitespace == {" ", NL}
DigitChars == <<"0", "1", "2", "3", "4", "5", "6", "7", "8", "9">>

IsDigitChar(c) == \E i \in DOMAIN DigitChars : DigitChars[i] = c
DigitValue(c)  == (CHOOSE i \in DOMAIN DigitChars : DigitChars[i] = c) - 1

\* str(n) for an int n >= 0
RECURSIVE Digits(_)
Digits(n) ==
    IF n < 10 THEN <<DigitChars[n + 1]>>
    ELSE Digits(n \div 10) \o <<DigitChars[(n % 10) + 1]>>

\* int(text) for a text of digits
RECURSIVE DigitsValue(_)
DigitsValue(text) ==
    IF text = <<>> THEN 0
    ELSE 10 * DigitsValue(SubSeq(text, 1, Len(text) - 1)) + DigitValue(text[Len(text)])

\* str.isdigit(): non-empty and every character a digit
isdigit(text) == text # <<>> /\ \A i \in DOMAIN text : IsDigitChar(text[i])

\* str.strip()
RECURSIVE LStrip(_)
LStrip(text) ==
    IF text # <<>> /\ Head(text) \in Whitespace THEN LStrip(Tail(text)) ELSE text

RECURSIVE RStrip(_)
RStrip(text) ==
    IF text # <<>> /\ text[Len(text)] \in Whitespace
    THEN RStrip(SubSeq(text, 1, Len(text) - 1)) ELSE text

strip(text) == RStrip(LStrip(text))

\* text.find(sep) from position i on, 0 when there is none
RECURSIVE Find(_, _, _)
Find(text, sep, i) ==
    IF i > Len(text) THEN 0
    ELSE IF text[i] = sep THEN i
    ELSE Find(text, sep, i + 1)

\* str.split(sep): the pieces between the separators, empty pieces kept
RECURSIVE split(_, _)
split(text, sep) ==
    LET k == Find(text, sep, 1) IN
    IF k = 0 THEN <<text>>
    ELSE <<SubSeq(text, 1, k - 1)>> \o split(SubSeq(text, k + 1, Len(text)), sep)

\* sep.join(list)
RECURSIVE join(_, _)
join(list, sep) ==
    IF list = <<>> THEN <<>>
    ELSE IF Len(list) = 1 THEN list[1]
    ELSE list[1] \o <<sep>> \o join(Tail(list), sep)

\* str.lower(), on the identifiers the model writes
lower(text) ==
    [i \in DOMAIN text |->
        CASE text[i] = "True"  -> "true"
          [] text[i] = "False" -> "false"
          [] OTHER             -> text[i]]

\* iterating a text file: its lines
Lines(text) == split(text, NL)

----------------------------------------------------------------------------
(* Tagged Python values and str()                                          *)

PyBool(b)  == [t |-> "bool",  v |-> b]
PyInt(n)   == [t |-> "int",   v |-> n]
PyFloat(f) == [t |-> "float", v |-> f]
PyStr(s)   == [t |-> "str",   v |-> s]
PyList(l)  == [t |-> "list",  v |-> l]
PyDict(d)  == [t |-> "dict",  v |-> d]
PyNone     == [t |-> "NoneType", v |-> <<>>]
Absent     == [t |-> "absent", v |-> <<>>]   \* a key the dict does not hold

\* str(True) / str(False)
BoolStr(b) == IF b THEN <<"True">> ELSE <<"False">>

\* repr of a non-negative float with one decimal, f in tenths
FloatStr(f) == Digits(f \div 10) \o <<".">> \o Digits(f % 10)

----------------------------------------------------------------------------
(* The parsers, lines 35-55                                                *)

parse_boolean(value, default) ==
    IF value = <<>> THEN default ELSE PyBool(lower(value) = <<"true">>)

parse_int(value, default) ==
    IF isdigit(value) THEN PyInt(DigitsValue(value)) ELSE default

\* float(value): digits, optionally followed by "." and one digit; anything
\* else the model writes raises ValueError
parse_float(value, default) ==
    LET parts == split(value, ".") IN
    IF Len(parts) = 1 /\ isdigit(parts[1])
        THEN PyFloat(10 * DigitsValue(parts[1]))
    ELSE IF Len(parts) = 2 /\ isdigit(parts[1]) /\ isdigit(parts[2]) /\ Len(parts[2]) = 1
        THEN PyFloat(10 * DigitsValue(parts[1]) + DigitsValue(parts[2]))
    ELSE default

parse_string(value, default) ==
    IF value # <<>> THEN PyStr(value) ELSE default

parse_array(value, default) ==
    IF value # <<>> THEN PyList(split(value, ",")) ELSE default

----------------------------------------------------------------------------
(* Module constants, lines 29-31, and the configuration schema, lines 66-93 *)

SBS_MODE_VALUES      == << <<"unset">>, <<"enable">>, <<"disable">> >>
BASE_EXTERNAL_MODES  == << <<"none">> >>
VR_LITE_OUTPUT_MODES == << <<"mouse">>, <<"joystick">> >>

In(x, list) == \E i \in DOMAIN list : list[i] = x

\* <<key, parser, default value>>, in the order of the dict
CONFIG_ENTRIES == <<
    <<"disabled", "parse_boolean", PyBool(TRUE)>>,
    <<"gamescope_reshade_wayland_disabled", "parse_boolean", PyBool(FALSE)>>,
    <<"output_mode", "parse_string", PyStr(<<"mouse">>)>>,
    <<"external_mode", "parse_array", PyList(<< <<"none">> >>)>>,
    <<"vr_lite_invert_x", "parse_boolean", PyBool(FALSE)>>,
    <<"vr_lite_invert_y", "parse_boolean", PyBool(FALSE)>>,
    <<"mouse_sensitivity", "parse_int", PyInt(30)>>,
    <<"display_zoom", "parse_float", PyFloat(10)>>,
    <<"look_ahead", "parse_int", PyInt(0)>>,
    <<"sbs_display_size", "parse_float", PyFloat(10)>>,
    <<"sbs_display_distance", "parse_float", PyFloat(10)>>,
    <<"sbs_content", "parse_boolean", PyBool(FALSE)>>,
    <<"sbs_mode_stretched", "parse_boolean", PyBool(TRUE)>>,
    <<"sideview_position", "parse_string", PyStr(<<"center">>)>>,
    <<"sideview_display_size", "parse_float", PyFloat(10)>>,
    <<"virtual_display_smooth_follow_enabled", "parse_boolean", PyBool(FALSE)>>,
    <<"sideview_smooth_follow_enabled", "parse_boolean", PyBool(FALSE)>>,
    <<"sideview_follow_threshold", "parse_float", PyFloat(5)>>,
    <<"curved_display", "parse_boolean", PyBool(FALSE)>>,
    <<"multi_tap_enabled", "parse_boolean", PyBool(FALSE)>>,
    <<"smooth_follow_track_roll", "parse_boolean", PyBool(FALSE)>>,
    <<"smooth_follow_track_pitch", "parse_boolean", PyBool(TRUE)>>,
    <<"smooth_follow_track_yaw", "parse_boolean", PyBool(TRUE)>>,
    <<"neck_saver_horizontal_multiplier", "parse_float", PyFloat(10)>>,
    <<"neck_saver_vertical_multiplier", "parse_float", PyFloat(10)>>,
    <<"debug", "parse_array", PyList(<<>>)>> >>

ConfigKeys == {CONFIG_ENTRIES[i][1] : i \in DOMAIN CONFIG_ENTRIES}

ConfigEntry(key) ==
    CONFIG_ENTRIES[CHOOSE i \in DOMAIN CONFIG_ENTRIES : CONFIG_ENTRIES[i][1] = key]

\* value[CONFIG_DEFAULT_VALUE_INDEX] for every key, lines 147-149
ConfigDefaults == [key \in ConfigKeys |-> ConfigEntry(key)[3]]

\* parser(value, default_val), lines 160-162
ApplyParser(parser, value, default) ==
    CASE parser = "parse_boolean" -> parse_boolean(value, default)
      [] parser = "parse_int"     -> parse_int(value, default)
      [] parser = "parse_float"   -> parse_float(value, default)
      [] parser = "parse_string"  -> parse_string(value, default)
      [] parser = "parse_array"   -> parse_array(value, default)

\* the body of the loop over the lines of the file, lines 154-164: a blank
\* line is skipped, a line that does not split in two at "=" raises and is
\* skipped, a key outside the schema is ignored
ParseConfigLine(config, line) ==
    LET parts == split(strip(line), "=") IN
    IF strip(line) = <<>> THEN config
    ELSE IF Len(parts) # 2 THEN config
    ELSE IF Len(parts[1]) = 1 /\ parts[1][1] \in ConfigKeys
        THEN LET key == parts[1][1] IN
             [config EXCEPT ![key] =
                 ApplyParser(ConfigEntry(key)[2], parts[2], ConfigEntry(key)[3])]
    ELSE config

RECURSIVE ParseConfigLines(_, _)
ParseConfigLines(config, lines) ==
    IF lines = <<>> THEN config
    ELSE ParseConfigLines(ParseConfigLine(config, Head(lines)), Tail(lines))

config_to_headset_mode(supported, config) ==
    IF config["disabled"].v THEN <<"disabled">>
    ELSE IF In(config["output_mode"].v, VR_LITE_OUTPUT_MODES) THEN <<"vr_lite">>
    ELSE LET hits == {i \in DOMAIN supported : In(supported[i], config["external_mode"].v)} IN
         IF hits = {} THEN <<"disabled">>
         ELSE LET supported_mode == supported[CHOOSE i \in hits : \A j \in hits : i <= j] IN
              IF supported_mode # <<>> /\ supported_mode # <<"none">>
              THEN supported_mode ELSE <<"disabled">>

\* the headset mode is a str value, as the one a caller puts in a ui_view
build_config_ui_view(supported, config) ==
    [headset_mode     |-> PyStr(config_to_headset_mode(supported, config)),
     is_joystick_mode |-> config["output_mode"] = PyStr(<<"joystick">>)]

\* retrieve_config without the ui_view: defaults overlaid by the file
LoadConfig(file) ==
    IF file = NoFile THEN ConfigDefaults
    ELSE ParseConfigLines(ConfigDefaults, Lines(file))

----------------------------------------------------------------------------
(* ModeTranslator: headset mode -> configuration fields, lines 222-245     *)

\* the previous list kept whole, managed modes included
KeepAllExternalModes(supported, external_modes) == external_modes

\* [mode for mode in external_modes if mode not in self.supported_output_modes]
RECURSIVE filter_to_other_external_modes(_, _)
filter_to_other_external_modes(supported, external_modes) ==
    IF external_modes = <<>> THEN <<>>
    ELSE IF In(Head(external_modes), supported)
        THEN filter_to_other_external_modes(supported, Tail(external_modes))
    ELSE <<Head(external_modes)>>
             \o filter_to_other_external_modes(supported, Tail(external_modes))

\* the returned dict holds only the keys its branch assigned
headset_mode_to_config(supported, headset_mode, joystick_mode, old_external_modes) ==
    LET new_external_modes == filter_to_other_external_modes(supported, old_external_modes) IN
    IF headset_mode.t = "str" /\ In(headset_mode.v, supported) THEN
        ("output_mode" :> PyStr(<<"external_only">>))
            @@ ("disabled" :> PyBool(FALSE))
            @@ ("external_mode" :> PyList(<<headset_mode.v>>))
    ELSE IF headset_mode = PyStr(<<"vr_lite">>) THEN
        ("output_mode" :> PyStr(IF joystick_mode THEN <<"joystick">> ELSE <<"mouse">>))
            @@ ("disabled" :> PyBool(FALSE))
            @@ ("external_mode" :> PyList(new_external_modes))
    ELSE IF Len(new_external_modes) = 0 THEN
        ("disabled" :> PyBool(TRUE))
            @@ ("external_mode" :> PyList(new_external_modes))
    ELSE
        ("output_mode" :> PyStr(<<"external_only">>))
            @@ ("external_mode" :> PyList(new_external_modes))

----------------------------------------------------------------------------
(* ConfigStore.save: write_config, lines 172-213                           *)

NoView == [present |-> FALSE, headset_mode |-> PyNone, is_joystick_mode |-> FALSE]

\* lines 177-182: with a ui_view, the previous external modes are read back
\* from the file and the translated mode fields replace the record's
MergeView(supported, file, config, view) ==
    IF view.present THEN
        LET old_config == LoadConfig(file)
            update == headset_mode_to_config(supported, view.headset_mode,
                          view.is_joystick_mode, old_config["external_mode"].v)
        IN [key \in DOMAIN config |->
               IF key \in DOMAIN update THEN update[key] ELSE config[key]]
    ELSE config

\* write_config without the sentinel
KeepExternalMode(config) == config

\* lines 184-185
EnsureExternalMode(config) ==
    IF Len(config["external_mode"].v) = 0
    THEN [config EXCEPT !["external_mode"] = PyList(Append(@.v, <<"none">>))]
    ELSE config

\* the isinstance chain, lines 189-196
SerializeValue(value) ==
    CASE value.t = "bool"  -> lower(BoolStr(value.v))
      [] value.t = "int"   -> Digits(value.v)
      [] value.t = "list"  -> join(value.v, ",")
      [] value.t = "float" -> FloatStr(value.v)
      [] OTHER             -> value.v

RECURSIVE SerializeEntries(_, _)
SerializeEntries(config, entries) ==
    IF entries = <<>> THEN <<>>
    ELSE LET key == Head(entries)[1] IN
         <<key, "=">> \o SerializeValue(config[key]) \o <<NL>>
             \o SerializeEntries(config, Tail(entries))

\* lines 187-196; the record iterates in the order of CONFIG_ENTRIES
SerializeConfig(config) == SerializeEntries(config, CONFIG_ENTRIES)

FailurePoints == {"none", "write_temp", "replace", "chmod"}

\* config is the caller's record without its ui_view, view the popped ui_view.
\* The temporary file is written, renamed over the config file, and the
\* config file's mode is set; any of the three may raise, and the exception
\* is logged and raised again.  tempFile says whether "temp.txt" is left
\* behind, not what is in it: nothing ever reads it.
write_config(config, view) ==
    LET merged == EnsureExternalMode(
                      MergeView(supported_output_modes, configFile, config, view))
        output == SerializeConfig(merged)
    IN \E failAt \in FailurePoints :
        /\ configFile' = IF failAt \in {"none", "chmod"} THEN output ELSE configFile
        /\ configPerm' = CASE failAt = "none"  -> "rw-rw-rw-"
                           [] failAt = "chmod" -> "umask"
                           [] OTHER            -> configPerm
        /\ tempFile' = IF failAt \in {"write_temp", "replace"} THEN "leftover" ELSE NoFile
        /\ cfgResult' =
               IF failAt = "none"
               THEN [op |-> "write_config", status |-> "returned", config |-> merged,
                     ui_view |-> [present |-> TRUE]
                         @@ build_config_ui_view(supported_output_modes, merged)]
               ELSE [op |-> "write_config", status |-> "raised"]
        /\ UNCHANGED <<supported_output_modes, flagVars, stateVars, modeCall>>

retrieve_config(include_ui_view) ==
    LET config == LoadConfig(configFile) IN
    /\ cfgResult' = [op |-> "retrieve_config", status |-> "returned", config |-> config,
                     ui_view |-> IF include_ui_view
                                 THEN [present |-> TRUE]
                                     @@ build_config_ui_view(supported_output_modes, config)
                                 ELSE NoView]
    /\ UNCHANGED <<supported_output_modes, configFile, configPerm, tempFile,
                   flagVars, stateVars, modeCall>>

\* write_config(retrieve_config()): the record a retrieve_config with its
\* ui_view returned, handed back as it is.  write_config pops the ui_view off
\* the record, line 177
WriteRetrievedConfig ==
    /\ cfgResult.op = "retrieve_config"
    /\ cfgResult.ui_view.present
    /\ write_config(cfgResult.config, cfgResult.ui_view)

----------------------------------------------------------------------------
(* ControlChannel: write_control_flags, lines 260-280                      *)

CONTROL_FLAGS == <<
    "recenter_screen", "recalibrate", "calibrate_magnet", "disable_magnet", "sbs_mode",
    "refresh_device_license", "enable_breezy_desktop_smooth_follow",
    "toggle_breezy_desktop_smooth_follow", "breezy_desktop_display_distance",
    "breezy_desktop_follow_threshold", "force_quit", "request_features" >>

\* The control file is kept byte by byte, because it is overwritten in place.
\* The characters of an identifier; a single character is itself.
Spelling(word) ==
    CASE word = "recenter_screen" ->
             <<"r", "e", "c", "e", "n", "t", "e", "r", "_", "s", "c", "r", "e",
             "e", "n">>
      [] word = "recalibrate" ->
             <<"r", "e", "c", "a", "l", "i", "b", "r", "a", "t", "e">>
      [] word = "calibrate_magnet" ->
             <<"c", "a", "l", "i", "b", "r", "a", "t", "e", "_", "m", "a", "g",
             "n", "e", "t">>
      [] word = "disable_magnet" ->
             <<"d", "i", "s", "a", "b", "l", "e", "_", "m", "a", "g", "n", "e",
             "t">>
      [] word = "sbs_mode" ->
             <<"s", "b", "s", "_", "m", "o", "d", "e">>
      [] word = "refresh_device_license" ->
             <<"r", "e", "f", "r", "e", "s", "h", "_", "d", "e", "v", "i", "c",
             "e", "_", "l", "i", "c", "e", "n", "s", "e">>
      [] word = "enable_breezy_desktop_smooth_follow" ->
             <<"e", "n", "a", "b", "l", "e", "_", "b", "r", "e", "e", "z", "y",
             "_", "d", "e", "s", "k", "t", "o", "p", "_", "s", "m", "o", "o",
             "t", "h", "_", "f", "o", "l", "l", "o", "w">>
      [] word = "toggle_breezy_desktop_smooth_follow" ->
             <<"t", "o", "g", "g", "l", "e", "_", "b", "r", "e", "e", "z", "y",
             "_", "d", "e", "s", "k", "t", "o", "p", "_", "s", "m", "o", "o",
             "t", "h", "_", "f", "o", "l", "l", "o", "w">>
      [] word = "breezy_desktop_display_distance" ->
             <<"b", "r", "e", "e", "z", "y", "_", "d", "e", "s", "k", "t", "o",
             "p", "_", "d", "i", "s", "p", "l", "a", "y", "_", "d", "i", "s",
             "t", "a", "n", "c", "e">>
      [] word = "breezy_desktop_follow_threshold" ->
             <<"b", "r", "e", "e", "z", "y", "_", "d", "e", "s", "k", "t", "o",
             "p", "_", "f", "o", "l", "l", "o", "w", "_", "t", "h", "r", "e",
             "s", "h", "o", "l", "d">>
      [] word = "force_quit" ->
             <<"f", "o", "r", "c", "e", "_", "q", "u", "i", "t">>
      [] word = "request_features" ->
             <<"r", "e", "q", "u", "e", "s", "t", "_", "f", "e", "a", "t", "u",
             "r", "e", "s">>
      [] word = "true" ->
             <<"t", "r", "u", "e">>
      [] word = "false" ->
             <<"f", "a", "l", "s", "e">>
      [] word = "unset" ->
             <<"u", "n", "s", "e", "t">>
      [] word = "enable" ->
             <<"e", "n", "a", "b", "l", "e">>
      [] word = "disable" ->
             <<"d", "i", "s", "a", "b", "l", "e">>
      [] word = "sbs" ->
             <<"s", "b", "s">>
      [] word = "smooth_follow" ->
             <<"s", "m", "o", "o", "t", "h", "_", "f", "o", "l", "l", "o",
             "w">>
      [] OTHER -> <<word>>

\* f.write(output): the text as the characters that reach the file
RECURSIVE Bytes(_)
Bytes(text) ==
    IF text = <<>> THEN <<>> ELSE Spelling(Head(text)) \o Bytes(Tail(text))

\* str(value), for the values a flag is given
StrValue(value) ==
    CASE value.t = "bool"  -> BoolStr(value.v)
      [] value.t = "int"   -> Digits(value.v)
      [] value.t = "float" -> FloatStr(value.v)
      [] OTHER             -> value.v

\* the body of the loop over control_flags.items(), lines 264-274: the text
\* one item adds to output
FlagLine(key, value) ==
    IF ~In(key, CONTROL_FLAGS) THEN <<>>
    ELSE IF key = "sbs_mode" /\ ~(value.t = "str" /\ In(value.v, SBS_MODE_VALUES)) THEN <<>>
    ELSE IF key = "request_features" /\ value.t # "list" THEN <<>>
    ELSE IF key = "request_features"
        THEN <<key, "=">> \o lower(join(value.v, ",")) \o <<NL>>
    ELSE <<key, "=">> \o lower(StrValue(value)) \o <<NL>>

RECURSIVE FlagLines(_)
FlagLines(control_flags) ==
    IF control_flags = <<>> THEN <<>>
    ELSE FlagLine(Head(control_flags)[1], Head(control_flags)[2])
             \o FlagLines(Tail(control_flags))

\* os.open(path, O_WRONLY | O_CREAT, 0o777) and f.write(output), lines 276-278:
\* the file is created when missing and is not truncated when it exists; the
\* bytes are written from offset 0 over what the file holds
WriteFromStart(file, bytes) ==
    IF file = NoFile \/ Len(file) <= Len(bytes) THEN bytes
    ELSE bytes \o SubSeq(file, Len(bytes) + 1, Len(file))

\* control_flags is the dict as the sequence of its items.  An exception of
\* os.open is logged and swallowed, line 279-280.
write_control_flags(control_flags) ==
    LET output == FlagLines(control_flags) IN
    /\ \/ /\ controlFile' = WriteFromStart(controlFile, Bytes(output))
          /\ flagsEmitted' = [status |-> "written", output |-> output]
       \/ /\ controlFile' = controlFile
          /\ flagsEmitted' = [status |-> "error", output |-> output]
    /\ UNCHANGED <<supported_output_modes, configVars, stateVars, modeCall>>

----------------------------------------------------------------------------
(* LicenseProjector, lines 337-409.  A license document is                  *)
(*   [tiers |-> <<[name, value]>>, features |-> <<[name, value]>>,          *)
(*    hardwareId, confirmedToken]                                            *)
(* with the items of each JSON object in their order; a tier value is       *)
(*   [active, activePeriodType, fundsNeededByPeriod, endDate]               *)
(* and a feature value [status, endDate].  Every time.time() is a sample of  *)
(* the clock, passed as now.                                                 *)

\* dict.get(key) on a dict of amounts by period
GetAmount(funds_needed_by_period, period) ==
    IF period \in DOMAIN funds_needed_by_period
    THEN PyInt(funds_needed_by_period[period]) ELSE PyNone

\* lines 405-409: "not date_seconds" holds for 0
_seconds_remaining(date_seconds, now) ==
    IF date_seconds = 0 THEN PyNone ELSE PyInt(date_seconds - now)

\* the body of the loop of _license_tiers_view, lines 340-356; raised says
\* that "time_remaining > 0" compared None with 0 (TypeError)
TierView(value, now) ==
    LET is_active == value.active
        active_period == IF is_active THEN value.activePeriodType ELSE None
        funds_needed == value.fundsNeededByPeriod
        end_date == value.endDate
        view == [active_period |-> active_period, funds_needed_by_period |-> funds_needed,
                 funds_needed_in_seconds |-> Absent, raised |-> FALSE]
    IN IF is_active /\ end_date # PyNone THEN
           LET active_period_funds_needed == GetAmount(funds_needed, active_period) IN
           IF active_period_funds_needed # PyNone /\ active_period_funds_needed # PyInt(0) THEN
               LET time_remaining == _seconds_remaining(end_date.v, now) IN
               IF time_remaining = PyNone THEN [view EXCEPT !.raised = TRUE]
               ELSE IF time_remaining.v > 0
                   THEN [view EXCEPT !.funds_needed_in_seconds = time_remaining]
               ELSE [view EXCEPT !.active_period = None]
           ELSE view
       ELSE view

\* the body of the loop of _license_features_view, lines 363-375
FeatureView(value, now) ==
    LET is_enabled == value.status # "off"
        end_date == value.endDate
        view == [is_enabled |-> is_enabled, is_trial |-> value.status = "trial",
                 funds_needed_in_seconds |-> Absent, raised |-> FALSE]
    IN IF is_enabled /\ end_date # PyNone THEN
           LET time_remaining == _seconds_remaining(end_date.v, now) IN
           IF time_remaining = PyNone THEN [view EXCEPT !.raised = TRUE]
           ELSE IF time_remaining.v > 0
               THEN [view EXCEPT !.funds_needed_in_seconds = time_remaining]
           ELSE [view EXCEPT !.is_enabled = FALSE]
       ELSE view

\* samples[i] is what time.time() returns while item i is projected
_license_tiers_view(license, samples) ==
    [i \in DOMAIN license.tiers |->
        [name |-> license.tiers[i].name, view |-> TierView(license.tiers[i].value, samples[i])]]

_license_features_view(license, samples) ==
    [i \in DOMAIN license.features |->
        [name |-> license.features[i].name,
         view |-> FeatureView(license.features[i].value, samples[i])]]

RECURSIVE EnabledNames(_)
EnabledNames(features) ==
    IF features = <<>> THEN <<>>
    ELSE (IF Head(features).view.is_enabled THEN <<Head(features).name>> ELSE <<>>)
             \o EnabledNames(Tail(features))

_license_enabled_features(license_view) == EnabledNames(license_view.features)

\* the loop over the tiers, lines 386-393; acc is
\* [min_funds_needed_date, min_funds_needed]
RECURSIVE ScanTiers(_, _)
ScanTiers(tiers, acc) ==
    IF tiers = <<>> THEN acc
    ELSE LET tier == Head(tiers).view
             lower_date ==
                 /\ tier.funds_needed_in_seconds # Absent
                 /\ \/ acc.min_funds_needed_date = PyNone
                    \/ tier.funds_needed_in_seconds.v < acc.min_funds_needed_date.v
             active_period_funds_needed ==
                 GetAmount(tier.funds_needed_by_period, tier.active_period)
             lower_funds ==
                 /\ active_period_funds_needed # PyNone
                 /\ active_period_funds_needed # PyInt(0)
                 /\ \/ acc.min_funds_needed = PyNone
                    \/ active_period_funds_needed.v < acc.min_funds_needed.v
         IN ScanTiers(Tail(tiers),
                IF ~lower_date THEN acc
                ELSE [min_funds_needed_date |-> tier.funds_needed_in_seconds,
                      min_funds_needed |-> IF lower_funds THEN active_period_funds_needed
                                           ELSE acc.min_funds_needed])

\* the loop over the features, lines 395-398
RECURSIVE ScanFeatures(_, _)
ScanFeatures(features, acc) ==
    IF features = <<>> THEN acc
    ELSE LET feature == Head(features).view
             lower_date ==
                 /\ feature.funds_needed_in_seconds # Absent
                 /\ \/ acc.min_funds_needed_date = PyNone
                    \/ feature.funds_needed_in_seconds.v < acc.min_funds_needed_date.v
         IN ScanFeatures(Tail(features),
                IF lower_date
                THEN [acc EXCEPT !.min_funds_needed_date = feature.funds_needed_in_seconds]
                ELSE acc)

\* _license_action_needed_details with the loop over the features left out
ActionNeededFromTiersOnly(license_view) ==
    LET acc == ScanTiers(license_view.tiers,
                   [min_funds_needed_date |-> PyNone, min_funds_needed |-> PyNone])
    IN IF acc.min_funds_needed_date # PyNone
       THEN PyDict([seconds |-> acc.min_funds_needed_date,
                    funds_needed_usd |-> acc.min_funds_needed])
       ELSE PyNone

_license_action_needed_details(license_view) ==
    LET acc == ScanFeatures(license_view.features,
                   ScanTiers(license_view.tiers,
                       [min_funds_needed_date |-> PyNone, min_funds_needed |-> PyNone]))
    IN IF acc.min_funds_needed_date # PyNone
       THEN PyDict([seconds |-> acc.min_funds_needed_date,
                    funds_needed_usd |-> acc.min_funds_needed])
       ELSE PyNone

\* the number of time.time() calls one build_state_ui_view can make: one for
\* driver_running, one for each tier and each feature
SampleCount(state) ==
    IF state["device_license"] = PyNone THEN 1
    ELSE 1 + Len(state["device_license"].v.tiers) + Len(state["device_license"].v.features)

\* lines 282-298.  samples are the successive values of time.time(): the
\* first for driver_running, then one for each tier, then one for each feature
build_state_ui_view(state, samples) ==
    LET driver_running ==
            state["heartbeat"].v # 0 /\ (samples[1] - state["heartbeat"].v) < 5
        license_json == state["device_license"]
    IN IF license_json = PyNone THEN
           [status |-> "returned",
            ui_view |-> [driver_running |-> driver_running, license |-> Absent]]
       ELSE
           LET license == license_json.v
               nt == Len(license.tiers)
               tiers == _license_tiers_view(license,
                            [i \in 1..nt |-> samples[1 + i]])
               features == _license_features_view(license,
                            [i \in 1..Len(license.features) |-> samples[1 + nt + i]])
               partial == [tiers |-> tiers, features |-> features]
           IN IF \E i \in DOMAIN tiers : tiers[i].view.raised THEN
                  [status |-> "raised", where |-> "_license_tiers_view"]
              ELSE IF \E i \in DOMAIN features : features[i].view.raised THEN
                  [status |-> "raised", where |-> "_license_features_view"]
              ELSE
                  [status |-> "returned",
                   ui_view |->
                     [driver_running |-> driver_running,
                      license |-> PyDict(
                        [tiers |-> tiers,
                         features |-> features,
                         hardware_id |-> license.hardwareId,
                         confirmed_token |-> license.confirmedToken = TRUE,
                         action_needed |-> _license_action_needed_details(partial),
                         enabled_features |-> _license_enabled_features(partial)])]]

----------------------------------------------------------------------------
(* StateReader: the state schema, lines 95-113, and retrieve_driver_state,  *)
(* lines 300-335                                                            *)

\* The JSON texts the driver writes for device_license, each carried as one
\* element of the file's text and named here; any other text is not JSON.
JsonDocuments ==
    ("{license: funded}" :>
        [tiers |-> << [name |-> "supporter",
                       value |-> [active |-> TRUE, activePeriodType |-> "monthly",
                                  fundsNeededByPeriod |-> ("monthly" :> 5),
                                  endDate |-> PyInt(20)]] >>,
         features |-> << [name |-> "sbs", value |-> [status |-> "on", endDate |-> PyNone]],
                         [name |-> "smooth_follow",
                          value |-> [status |-> "trial", endDate |-> PyInt(3)]] >>,
         hardwareId |-> "hw1", confirmedToken |-> TRUE])
    @@ ("{license: feature endDate 0}" :>
        [tiers |-> <<>>,
         features |-> << [name |-> "sbs",
                          value |-> [status |-> "on", endDate |-> PyInt(0)]] >>,
         hardwareId |-> "hw1", confirmedToken |-> FALSE])

\* json.loads(value), or the default on JSONDecodeError, lines 57-61
parse_json_string(value, default) ==
    IF Len(value) = 1 /\ value[1] \in DOMAIN JsonDocuments
    THEN PyDict(JsonDocuments[value[1]]) ELSE default

STATE_ENTRIES == <<
    <<"heartbeat", "parse_int", PyInt(0)>>,
    <<"hardware_id", "parse_string", PyNone>>,
    <<"connected_device_brand", "parse_string", PyNone>>,
    <<"connected_device_model", "parse_string", PyNone>>,
    <<"magnet_supported", "parse_boolean", PyBool(FALSE)>>,
    <<"magnet_calibration_type", "parse_string", PyStr(<<"UNSUPPORTED">>)>>,
    <<"using_magnet", "parse_boolean", PyBool(FALSE)>>,
    <<"magnet_stale", "parse_boolean", PyBool(FALSE)>>,
    <<"magnet_calibrating", "parse_boolean", PyBool(FALSE)>>,
    <<"gyro_calibrating", "parse_boolean", PyBool(FALSE)>>,
    <<"accel_calibrating", "parse_boolean", PyBool(FALSE)>>,
    <<"sbs_mode_enabled", "parse_boolean", PyBool(FALSE)>>,
    <<"sbs_mode_supported", "parse_boolean", PyBool(FALSE)>>,
    <<"firmware_update_recommended", "parse_boolean", PyBool(FALSE)>>,
    <<"breezy_desktop_smooth_follow_enabled", "parse_boolean", PyBool(FALSE)>>,
    <<"is_gamescope_reshade_ipc_connected", "parse_boolean", PyBool(FALSE)>>,
    <<"device_license", "parse_json_string", PyNone>> >>

StateKeys == {STATE_ENTRIES[i][1] : i \in DOMAIN STATE_ENTRIES}

StateEntry(key) ==
    STATE_ENTRIES[CHOOSE i \in DOMAIN STATE_ENTRIES : STATE_ENTRIES[i][1] = key]

\* lines 303-304
StateDefaults == [key \in StateKeys |-> StateEntry(key)[3]]

\* the body of the loop over the lines of the state file, lines 309-319
ParseStateLine(state, line) ==
    LET parts == split(strip(line), "=") IN
    IF strip(line) = <<>> THEN state
    ELSE IF Len(parts) # 2 THEN state
    ELSE IF Len(parts[1]) = 1 /\ parts[1][1] \in StateKeys
        THEN LET key == parts[1][1]
                 parser == StateEntry(key)[2]
                 default_val == StateEntry(key)[3]
             IN [state EXCEPT ![key] =
                    IF parser = "parse_json_string"
                    THEN parse_json_string(parts[2], default_val)
                    ELSE ApplyParser(parser, parts[2], default_val)]
    ELSE state

RECURSIVE ParseStateLines(_, _)
ParseStateLines(state, lines) ==
    IF lines = <<>> THEN state
    ELSE ParseStateLines(ParseStateLine(state, Head(lines)), Tail(lines))

\* lines 301-321: defaults overlaid by the file, all defaults without a file
LoadState(file) ==
    IF file = NoFile THEN StateDefaults
    ELSE ParseStateLines(StateDefaults, Lines(file))

\* lines 326-335: what retrieve_driver_state returns, given the ui_view
StatePayload(state, ui_view) ==
    IF ~ui_view.driver_running
    THEN ("heartbeat" :> state["heartbeat"]) @@ ("hardware_id" :> state["hardware_id"])
             @@ ("device_license" :> state["device_license"]) @@ ("ui_view" :> ui_view)
    ELSE state @@ ("ui_view" :> ui_view)

\* non-decreasing sequences of n clock values in lo..hi: what n successive
\* time.time() calls can return
RECURSIVE ClockSamples(_, _, _)
ClockSamples(n, lo, hi) ==
    IF n = 0 THEN {<<>>}
    ELSE UNION {{<<v>> \o rest : rest \in ClockSamples(n - 1, v, hi)} : v \in lo..hi}

MaxDrift == 1
MaxClock == 8

retrieve_driver_state ==
    LET state == LoadState(stateFile) IN
    \E samples \in ClockSamples(SampleCount(state), clock, clock + MaxDrift) :
        LET built == build_state_ui_view(state, samples) IN
        /\ samples[Len(samples)] <= MaxClock
        /\ clock' = samples[Len(samples)]
        /\ stateResult' =
               IF built.status = "raised"
               THEN [status |-> "raised", now |-> samples[1], heartbeat |-> state["heartbeat"].v]
               ELSE [status |-> "returned", now |-> samples[1],
                     heartbeat |-> state["heartbeat"].v,
                     payload |-> StatePayload(state, built.ui_view)]
        /\ UNCHANGED <<supported_output_modes, configVars, flagVars, stateFile,
                       viewCall, modeCall>>

\* the public build_state_ui_view called on a state record
BuildStateUiView ==
    /\ viewCall.status = "input"
    /\ \E samples \in ClockSamples(SampleCount(viewCall.state), clock, clock + MaxDrift) :
        /\ clock' = samples[Len(samples)]
        /\ viewCall' = [state |-> viewCall.state, samples |-> samples]
                           @@ build_state_ui_view(viewCall.state, samples)
    /\ UNCHANGED <<supported_output_modes, configVars, flagVars, stateFile,
                   stateResult, modeCall>>

\* The driver rewrites its state file with the current time as heartbeat.
\* license is the text after "device_license=", or None for no such line.
DriverWritesState(license) ==
    /\ stateFile' =
           <<"heartbeat", "=">> \o Digits(clock) \o <<NL>>
               \o <<"hardware_id", "=", "hw1", NL>>
               \o <<"connected_device_brand", "=", "XREAL", NL>>
               \o <<"sbs_mode_enabled", "=", "true", NL>>
               \o (IF license = None THEN <<>> ELSE <<"device_license", "=", license, NL>>)
    /\ UNCHANGED <<supported_output_modes, configVars, flagVars, clock, stateResult,
                   viewCall, modeCall>>

Tick ==
    /\ clock < MaxClock
    /\ clock' = clock + 1
    /\ UNCHANGED <<supported_output_modes, configVars, flagVars, stateFile, stateResult,
                   viewCall, modeCall>>

\* the public headset_mode_to_config called on its own
HeadsetModeToConfig ==
    /\ modeCall.status = "input"
    /\ modeCall' = [modeCall EXCEPT
           !.status = "returned",
           !.config = headset_mode_to_config(supported_output_modes, modeCall.headset_mode,
                          modeCall.joystick_mode, modeCall.old_external_modes)]
    /\ UNCHANGED <<supported_output_modes, configVars, flagVars, stateVars>>

----------------------------------------------------------------------------
(* Inputs                                                                  *)

MaxExternalModes == 2

SeqsUpTo(S, n) == UNION {[1..k -> S] : k \in 0..n}

\* lists supported_output_modes is constructed with, before BASE_EXTERNAL_MODES
SupportedChoices == { <<>>, << <<"virtual_display">>, <<"sideview">> >> }

\* sideview is managed by one of SupportedChoices, breezy_desktop by neither
ExternalModeNames == { <<"sideview">>, <<"breezy_desktop">> }
ExternalModeLists ==
    SeqsUpTo(ExternalModeNames, MaxExternalModes) \cup {BASE_EXTERNAL_MODES}

ModeNames == { <<"none">>, <<"sideview">>, <<"virtual_display">>, <<"breezy_desktop">> }

HeadsetModes == { PyStr(<<"disabled">>), PyStr(<<"vr_lite">>), PyStr(<<"sideview">>),
                  PyStr(<<"virtual_display">>), PyStr(<<"breezy_desktop">>), PyNone }

UiViews == {NoView} \cup
    [present : {TRUE}, headset_mode : HeadsetModes, is_joystick_mode : BOOLEAN]

\* records that differ from the defaults in the mode fields
ModeRecords ==
    { [ConfigDefaults EXCEPT !["disabled"] = PyBool(d), !["output_mode"] = PyStr(o),
                             !["external_mode"] = PyList(e)] :
        d \in BOOLEAN, o \in { <<"mouse">>, <<"external_only">> }, e \in ExternalModeLists }

\* records that differ from the defaults in one field of each type
FieldValues == {
    <<"mouse_sensitivity", PyInt(0)>>, <<"mouse_sensitivity", PyInt(125)>>,
    <<"look_ahead", PyInt(7)>>,
    <<"display_zoom", PyFloat(5)>>, <<"sbs_display_distance", PyFloat(120)>>,
    <<"sideview_position", PyStr(<<"top_left">>)>>, <<"sideview_position", PyStr(<<>>)>>,
    <<"debug", PyList(<< <<"joystick">>, <<"taps">> >>)>>,
    <<"sbs_content", PyBool(TRUE)>>, <<"sbs_mode_stretched", PyBool(FALSE)>> }

FieldRecords == { [ConfigDefaults EXCEPT ![kv[1]] = kv[2]] : kv \in FieldValues }

ConfigRecords == ModeRecords \cup FieldRecords

\* a ui_view comes with a record the caller got from retrieve_config and
\* edited; every branch of headset_mode_to_config replaces its external_mode
ViewBaseRecords == {r \in ModeRecords : r["external_mode"] = ConfigDefaults["external_mode"]}

\* <<config, ui_view>>: the argument of write_config
WriteConfigInputs ==
    (ConfigRecords \X {NoView}) \cup (ViewBaseRecords \X (UiViews \ {NoView}))

\* a config.ini edited by hand or by other software: a blank line, a key
\* outside the schema, a line with two "=", a value its parser rejects
ForeignConfigFile ==
    <<"external_mode", "=", "breezy_desktop", NL, NL,
      "unknown_key", "=", "1", NL,
      "disabled", "=", "false", "=", "x", NL,
      " ", "mouse_sensitivity", "=", "fast", NL,
      "output_mode", "=", "external_only", NL>>

MaxFlags == 2

FlagItems == {
    <<"recenter_screen", PyBool(TRUE)>>,
    <<"sbs_mode", PyStr(<<"enable">>)>>, <<"sbs_mode", PyStr(<<"3d">>)>>,
    <<"request_features", PyList(<< <<"sbs">>, <<"smooth_follow">> >>)>>,
    <<"request_features", PyStr(<<"sbs">>)>>,
    <<"not_a_flag", PyBool(TRUE)>> }

\* dicts of at most MaxFlags items: no key twice
ControlFlagDicts ==
    {d \in SeqsUpTo(FlagItems, MaxFlags) :
        \A i, j \in DOMAIN d : i # j => d[i][1] # d[j][1]}

MaxTiers == 2
MaxFeatures == 2

TierValues == {
    [active |-> FALSE, activePeriodType |-> "monthly",
     fundsNeededByPeriod |-> ("monthly" :> 5), endDate |-> PyInt(13)],
    [active |-> TRUE, activePeriodType |-> "monthly",
     fundsNeededByPeriod |-> ("monthly" :> 0), endDate |-> PyInt(13)],
    [active |-> TRUE, activePeriodType |-> "monthly",
     fundsNeededByPeriod |-> ("monthly" :> 5) @@ ("yearly" :> 50), endDate |-> PyInt(13)],
    [active |-> TRUE, activePeriodType |-> "yearly",
     fundsNeededByPeriod |-> ("monthly" :> 5) @@ ("yearly" :> 50), endDate |-> PyInt(11)],
    [active |-> TRUE, activePeriodType |-> "monthly",
     fundsNeededByPeriod |-> ("monthly" :> 5), endDate |-> PyInt(0)] }

FeatureValues == {
    [status |-> "off", endDate |-> PyInt(13)],
    [status |-> "on", endDate |-> PyNone],
    [status |-> "on", endDate |-> PyInt(9)],
    [status |-> "trial", endDate |-> PyInt(11)],
    [status |-> "on", endDate |-> PyInt(0)] }

TierNames    == <<"supporter", "pro", "enterprise">>
FeatureNames == <<"sbs", "smooth_follow", "productivity_basic">>

\* JSON objects of at most n items, the i-th key being names[i]
Items(names, values, n) ==
    UNION {{[i \in 1..k |-> [name |-> names[i], value |-> vs[i]]] : vs \in [1..k -> values]}
              : k \in 0..n}

LicenseDocuments ==
    [tiers : Items(TierNames, TierValues, MaxTiers),
     features : Items(FeatureNames, FeatureValues, MaxFeatures),
     hardwareId : {"hw1"}, confirmedToken : {TRUE}]

\* state records for build_state_ui_view: a heartbeat 4 s old at its first
\* clock sample, with no license or with a license document
ViewStates ==
    { [StateDefaults EXCEPT !["heartbeat"] = PyInt(6), !["device_license"] = l] :
        l \in {PyNone} \cup {PyDict(d) : d \in LicenseDocuments} }

DriverLicenseTexts == {None, "{", "{license: funded}", "{license: feature endDate 0}"}

\* a state file that has no heartbeat line, a blank line and a line that does
\* not split in two
ForeignStateFile ==
    <<"hardware_id", "=", "hw1", NL, NL, "heartbeat", NL, "sbs_mode_enabled", "=", "true", NL>>

----------------------------------------------------------------------------
(* Specifications                                                          *)

IdleConfig ==
    /\ configFile = NoFile /\ configPerm = "none" /\ tempFile = NoFile
    /\ cfgResult = [op |-> "none", status |-> "none"]

IdleFlags == controlFile = NoFile /\ flagsEmitted = [status |-> "none", output |-> <<>>]

IdleState ==
    /\ stateFile = NoFile /\ clock = 1
    /\ stateResult = [status |-> "none"] /\ viewCall = [status |-> "none"]

IdleMode == modeCall = [status |-> "none"]

InitConfig ==
    /\ supported_output_modes \in {s \o BASE_EXTERNAL_MODES : s \in SupportedChoices}
    /\ configFile \in {NoFile, ForeignConfigFile}
    /\ configPerm = IF configFile = NoFile THEN "none" ELSE "umask"
    /\ tempFile = NoFile
    /\ cfgResult = [op |-> "none", status |-> "none"]
    /\ IdleFlags /\ IdleState /\ IdleMode

NextConfig ==
    \/ \E in \in WriteConfigInputs : write_config(in[1], in[2])
    \/ \E include_ui_view \in BOOLEAN : retrieve_config(include_ui_view)
    \/ WriteRetrievedConfig

SpecConfig == InitConfig /\ [][NextConfig]_vars

InitFlags ==
    /\ supported_output_modes = BASE_EXTERNAL_MODES
    /\ IdleConfig /\ IdleFlags /\ IdleState /\ IdleMode

NextFlags == \E control_flags \in ControlFlagDicts : write_control_flags(control_flags)

SpecFlags == InitFlags /\ [][NextFlags]_vars

InitState ==
    /\ supported_output_modes = BASE_EXTERNAL_MODES
    /\ stateFile \in {NoFile, ForeignStateFile}
    /\ clock = 1
    /\ stateResult = [status |-> "none"] /\ viewCall = [status |-> "none"]
    /\ IdleConfig /\ IdleFlags /\ IdleMode

NextState ==
    \/ \E license \in DriverLicenseTexts : DriverWritesState(license)
    \/ Tick
    \/ retrieve_driver_state

SpecState == InitState /\ [][NextState]_vars

InitLicense ==
    /\ supported_output_modes = BASE_EXTERNAL_MODES
    /\ stateFile = NoFile /\ clock = 10 /\ stateResult = [status |-> "none"]
    /\ viewCall \in [status : {"input"}, state : ViewStates]
    /\ IdleConfig /\ IdleFlags /\ IdleMode

NextLicense == BuildStateUiView

SpecLicense == InitLicense /\ [][NextLicense]_vars

InitMode ==
    /\ supported_output_modes \in {s \o BASE_EXTERNAL_MODES : s \in SupportedChoices}
    /\ modeCall \in [status : {"input"}, headset_mode : HeadsetModes,
                     joystick_mode : BOOLEAN,
                     old_external_modes : SeqsUpTo(ModeNames, MaxExternalModes),
                     config : {<<>>}]
    /\ IdleConfig /\ IdleFlags /\ IdleState

NextMode == HeadsetModeToConfig

SpecMode == InitMode /\ [][NextMode]_vars

----------------------------------------------------------------------------
(* Claims about the configuration file                                     *)

WriteConfigReturned == cfgResult.op = "write_config" /\ cfgResult.status = "returned"
WriteConfigRaised   == cfgResult.op = "write_config" /\ cfgResult.status = "raised"

\* the text after "key=" on the key's line of a file, <<NL>> when there is no such line
RECURSIVE RawValue(_, _)
RawValue(lines, key) ==
    IF lines = <<>> THEN <<NL>>
    ELSE IF Len(Head(lines)) >= 2 /\ Head(lines)[1] = key /\ Head(lines)[2] = "="
        THEN SubSeq(Head(lines), 3, Len(Head(lines)))
    ELSE RawValue(Tail(lines), key)

\* C1: a write_config call that raises leaves the content of the config file
\* as it was before the call.
C1_FailedWriteKeepsFile ==
    [][WriteConfigRaised' => configFile' = configFile]_vars

\* C4: the external_mode written to the config file is never empty, and after
\* a write_config that returned, the list it returned is not empty and is the
\* one on disk.
C4_ExternalModeNeverEmpty ==
    /\ configFile # NoFile => RawValue(Lines(configFile), "external_mode") # <<>>
    /\ WriteConfigReturned =>
          /\ cfgResult.config["external_mode"].v # <<>>
          /\ RawValue(Lines(configFile), "external_mode")
                = join(cfgResult.config["external_mode"].v, ",")

\* C4 witness: a vr_lite request in joystick mode over previous external modes
\* that are all managed: the filtered list was empty and holds the sentinel.
C4_Witness ==
    /\ WriteConfigReturned
    /\ cfgResult.config["output_mode"] = PyStr(<<"joystick">>)
    /\ cfgResult.config["external_mode"] = PyList(<< <<"none">> >>)

\* C7: a retrieve_config that follows a write_config that returned gives every
\* field the value write_config saved, and a ui_view computed from those.
C7_RoundTrip ==
    [][(WriteConfigReturned /\ cfgResult'.op = "retrieve_config") =>
          /\ cfgResult'.config = cfgResult.config
          /\ cfgResult'.ui_view.present =>
                cfgResult'.ui_view = [present |-> TRUE]
                    @@ build_config_ui_view(supported_output_modes, cfgResult.config)]_vars

\* the mode fields a file holds, as retrieve_config reads them
ModeFields(file) ==
    [key \in {"disabled", "output_mode", "external_mode"} |-> LoadConfig(file)[key]]

\* a step of WriteRetrievedConfig that returned: what write_config returns is
\* the record it saved
WriteBackReturned ==
    /\ cfgResult.op = "retrieve_config"
    /\ cfgResult.ui_view.present
    /\ cfgResult'.op = "write_config"
    /\ cfgResult'.status = "returned"
    /\ cfgResult'.config = EnsureExternalMode(
           MergeView(supported_output_modes, configFile, cfgResult.config, cfgResult.ui_view))

\* C11: handing the record retrieve_config returned, with its ui_view and
\* unmodified, back to write_config leaves the disabled, output_mode and
\* external_mode fields of the config file as they were; a managed mode in
\* external_mode stays when the record is disabled or in a vr_lite output mode.
C11_WriteBackKeepsModeFields ==
    [][WriteBackReturned => ModeFields(configFile') = ModeFields(configFile)]_vars

----------------------------------------------------------------------------
(* Claims about the control file                                           *)

\* C2: after a write_control_flags call that wrote, the control file holds
\* exactly the lines that call emitted and nothing of an earlier call.
C2_ControlFileIsLastOutput ==
    flagsEmitted.status = "written" => controlFile = Bytes(flagsEmitted.output)

----------------------------------------------------------------------------
(* Claims about the driver state and the license view                      *)

StalePayloadKeys == {"heartbeat", "hardware_id", "device_license", "ui_view"}

\* C3: every retrieve_driver_state call returns a payload; its keys are the
\* four of a stale state when heartbeat = 0 or now - heartbeat >= 5, and every
\* schema field plus ui_view otherwise.
C3_PayloadKeysFollowStaleness ==
    stateResult.status # "none" =>
        /\ stateResult.status = "returned"
        /\ DOMAIN stateResult.payload =
               IF stateResult.heartbeat = 0 \/ stateResult.now - stateResult.heartbeat >= 5
               THEN StalePayloadKeys
               ELSE StateKeys \cup {"ui_view"}

ViewReturnedWithLicense ==
    /\ viewCall.status = "returned"
    /\ viewCall.ui_view.license # Absent

LicenseView == viewCall.ui_view.license.v

\* every funds_needed_in_seconds a license view carries, tiers and features
FundsNeededSeconds(license_view) ==
    {license_view.tiers[i].view.funds_needed_in_seconds.v :
        i \in {j \in DOMAIN license_view.tiers :
                  license_view.tiers[j].view.funds_needed_in_seconds # Absent}}
    \cup
    {license_view.features[i].view.funds_needed_in_seconds.v :
        i \in {j \in DOMAIN license_view.features :
                  license_view.features[j].view.funds_needed_in_seconds # Absent}}

\* the tiers whose funds_needed_in_seconds is the reported minimum
TiersAtMinimum(license_view) ==
    {i \in DOMAIN license_view.tiers :
        /\ license_view.tiers[i].view.funds_needed_in_seconds # Absent
        /\ license_view.tiers[i].view.funds_needed_in_seconds
               = license_view.action_needed.v.seconds}

\* C5: when a tier supplies the minimum funds_needed_in_seconds that
\* action_needed reports, funds_needed_usd is the amount of that tier's
\* active period.
C5_FundsOfTheEarliestTier ==
    (ViewReturnedWithLicense /\ LicenseView.action_needed # PyNone
        /\ TiersAtMinimum(LicenseView) # {}) =>
    \E i \in TiersAtMinimum(LicenseView) :
        LicenseView.action_needed.v.funds_needed_usd =
            GetAmount(LicenseView.tiers[i].view.funds_needed_by_period,
                      LicenseView.tiers[i].view.active_period)

\* C6: action_needed.seconds is the smallest funds_needed_in_seconds over the
\* tiers and the features together, and action_needed is None exactly when
\* no tier and no feature carries one.
C6_ActionNeededIsMinimum ==
    ViewReturnedWithLicense =>
        LET all == FundsNeededSeconds(LicenseView) IN
        /\ (LicenseView.action_needed = PyNone) <=> (all = {})
        /\ all # {} =>
              /\ LicenseView.action_needed.v.seconds.v \in all
              /\ \A x \in all : LicenseView.action_needed.v.seconds.v <= x

\* C6 witness: two tiers carry a deadline and a feature carries an earlier one,
\* which is the one reported.
C6_Witness ==
    /\ ViewReturnedWithLicense
    /\ Cardinality(TiersAtMinimum(LicenseView)) = 0
    /\ Cardinality({i \in DOMAIN LicenseView.tiers :
           LicenseView.tiers[i].view.funds_needed_in_seconds # Absent}) = 2
    /\ LicenseView.action_needed # PyNone
    /\ \A i \in DOMAIN LicenseView.tiers :
           LicenseView.action_needed.v.seconds.v
               < LicenseView.tiers[i].view.funds_needed_in_seconds.v

\* the calls that got as far as projecting the features
FeaturesProjected ==
    /\ viewCall.status \in {"returned", "raised"}
    /\ viewCall.state["device_license"] # PyNone
    /\ viewCall.status = "raised" => viewCall.where = "_license_features_view"

\* C9: for every feature: is_trial iff status is "trial"; with status not
\* "off" and endDate after now, is_enabled and funds_needed_in_seconds =
\* endDate - now; with status not "off" and endDate at or before now,
\* not is_enabled and no funds_needed_in_seconds; enabled_features lists
\* exactly the enabled features.  now is the clock sample the feature was
\* projected with.
C9_FeatureProjection ==
    FeaturesProjected =>
        /\ viewCall.status = "returned"
        /\ LET license == viewCall.state["device_license"].v
               nt == Len(license.tiers)
           IN /\ \A i \in DOMAIN license.features :
                    LET feature == license.features[i].value
                        view == LicenseView.features[i].view
                        now == viewCall.samples[1 + nt + i]
                    IN /\ view.is_trial <=> feature.status = "trial"
                       /\ (feature.status # "off" /\ feature.endDate # PyNone
                             /\ feature.endDate.v > now) =>
                              /\ view.is_enabled
                              /\ view.funds_needed_in_seconds = PyInt(feature.endDate.v - now)
                       /\ (feature.status # "off" /\ feature.endDate # PyNone
                             /\ feature.endDate.v <= now) =>
                              /\ ~view.is_enabled
                              /\ view.funds_needed_in_seconds = Absent
              /\ \A i \in DOMAIN license.features :
                    LicenseView.features[i].view.is_enabled
                        <=> \E k \in DOMAIN LicenseView.enabled_features :
                               LicenseView.enabled_features[k] = license.features[i].name
              /\ Len(LicenseView.enabled_features)
                    = Cardinality({i \in DOMAIN license.features :
                                      LicenseView.features[i].view.is_enabled})

\* the tiers and features whose endDate build_state_ui_view compares with the
\* clock, as <<endDate, funds_needed_in_seconds of the view>>
ExpiryVerdicts ==
    LET license == viewCall.state["device_license"].v IN
    { <<license.tiers[i].value.endDate, LicenseView.tiers[i].view.funds_needed_in_seconds>> :
        i \in {j \in DOMAIN license.tiers :
                  /\ license.tiers[j].value.active
                  /\ license.tiers[j].value.endDate # PyNone
                  /\ GetAmount(license.tiers[j].value.fundsNeededByPeriod,
                               license.tiers[j].value.activePeriodType)
                         \notin {PyNone, PyInt(0)}} }
    \cup
    { <<license.features[i].value.endDate,
        LicenseView.features[i].view.funds_needed_in_seconds>> :
        i \in {j \in DOMAIN license.features :
                  /\ license.features[j].value.status # "off"
                  /\ license.features[j].value.endDate # PyNone} }

\* C10: one projection compares every endDate with the same sample of the
\* clock: two entries with the same endDate get the same verdict and the same
\* funds_needed_in_seconds.
C10_OneClockSample ==
    ViewReturnedWithLicense =>
        \A a, b \in ExpiryVerdicts : a[1] = b[1] => a[2] = b[2]

----------------------------------------------------------------------------
(* Claims about the mode translation                                       *)

\* the positions of previous external modes that are not managed
Unmanaged(supported, prev) == {i \in DOMAIN prev : ~In(prev[i], supported)}

\* C8: for "vr_lite", output_mode is "joystick" or "mouse" by the flag,
\* disabled is false, and external_mode is the previous list without its
\* managed entries, the others in their order.
C8_VrLiteKeepsUnmanagedModes ==
    (modeCall.status = "returned" /\ modeCall.headset_mode = PyStr(<<"vr_lite">>)) =>
        LET prev == modeCall.old_external_modes
            out  == modeCall.config["external_mode"].v
            keep == Unmanaged(supported_output_modes, prev)
        IN /\ DOMAIN modeCall.config = {"output_mode", "disabled", "external_mode"}
           /\ modeCall.config["output_mode"] =
                  PyStr(IF modeCall.joystick_mode THEN <<"joystick">> ELSE <<"mouse">>)
           /\ modeCall.config["disabled"] = PyBool(FALSE)
           /\ Len(out) = Cardinality(keep)
           /\ \A k \in DOMAIN out :
                  out[k] = prev[CHOOSE i \in keep : Cardinality({j \in keep : j <= i}) = k]
           /\ prev = << <<"sideview">> >> =>
                  out = IF In(<<"sideview">>, supported_output_modes)
                        THEN <<>> ELSE << <<"sideview">> >>

\* C8 witness: sideview is managed and is dropped, breezy_desktop is kept.
C8_Witness ==
    /\ modeCall.status = "returned"
    /\ modeCall.headset_mode = PyStr(<<"vr_lite">>)
    /\ modeCall.joystick_mode
    /\ modeCall.old_external_modes = << <<"sideview">>, <<"breezy_desktop">> >>
    /\ In(<<"sideview">>, supported_output_modes)
    /\ modeCall.config["external_mode"].v = << <<"breezy_desktop">> >>

====
